---- MODULE Spec2Model ----
(***************************************************************************)
(* SpellSentinel: sitemap resolution, page fetch with retry, spell audit   *)
(* and report aggregation (src/spellcheck_crawler.py).                     *)
(*                                                                         *)
(* Text is a sequence of one-character strings, so that the regular        *)
(* expressions of find_spelling_errors (sentence split, tokenisation),     *)
(* str.strip and str.lower are computed character by character.            *)
(***************************************************************************)
EXTENDS Integers, Sequences, FiniteSets, TLC

VARIABLES
    pc,            \* position of the main thread / of the function being run
    world,         \* what the network serves at each sitemap URL
    urls,          \* run_spellcheck_audit: urls (result of extract_urls_from_sitemap)
    phase,         \* per submitted task: "queued", "fetching", "auditing", "finished"
    gets,          \* per task: number of requests.get calls made by extract_text_from_url
    sleeps,        \* per task: number of time.sleep(1) calls made by extract_text_from_url
    fetched,       \* per task: the text returned by a successful attempt, or NoText
    audited,       \* per task: find_spelling_errors was called
    result,        \* per task: the future's outcome once finished
    yielded,       \* set of tasks already yielded by as_completed
    report,        \* run_spellcheck_audit: report
    skipped,       \* run_spellcheck_audit: skipped
    files,         \* the output files written so far, in order of writing
    text,          \* find_spelling_errors: its argument
    errors         \* find_spelling_errors: its return value

vars == <<pc, world, urls, phase, gets, sleeps, fetched, audited, result,
          yielded, report, skipped, files, text, errors>>

(***************************************************************************)
(* Characters and strings                                                  *)
(***************************************************************************)
UpperCase == <<"A","B","C","D","E","F","G","H","I","J","K","L","M",
               "N","O","P","Q","R","S","T","U","V","W","X","Y","Z">>
LowerCase == <<"a","b","c","d","e","f","g","h","i","j","k","l","m",
               "n","o","p","q","r","s","t","u","v","w","x","y","z">>
Digits == {"0","1","2","3","4","5","6","7","8","9"}

UpperSet == {UpperCase[i] : i \in DOMAIN UpperCase}
LowerSet == {LowerCase[i] : i \in DOMAIN LowerCase}

Letters == UpperSet \cup LowerSet
SpaceChars == {" ", "\t", "\n", "\r", "\f"}
WordChars == Letters \cup Digits \cup {"_"}
TokenChars == Letters \cup {"'"}
LowerOf == [c \in UpperSet |-> LowerCase[CHOOSE i \in DOMAIN UpperCase : UpperCase[i] = c]]

\* regex \s
IsSpace(c) == c \in SpaceChars
\* regex \w
IsWordChar(c) == c \in WordChars
\* regex [a-zA-Z\']
IsTokenChar(c) == c \in TokenChars

\* str.lower on one character
LowerChar(c) == IF c \in UpperSet THEN LowerOf[c] ELSE c

\* str.lower
Lower(s) == [i \in DOMAIN s |-> LowerChar(s[i])]

\* s[a..b] as a sequence (empty when a > b)
Slice(s, a, b) == IF a > b THEN <<>> ELSE [i \in 1..(b - a + 1) |-> s[a + i - 1]]

\* str.strip: drop leading and trailing whitespace
Strip(s) ==
    LET keep == {i \in DOMAIN s : ~IsSpace(s[i])}
    IN  IF keep = {} THEN <<>>
        ELSE LET lo == CHOOSE i \in keep : \A j \in keep : i <= j
                 hi == CHOOSE i \in keep : \A j \in keep : j <= i
             IN  Slice(s, lo, hi)

(***************************************************************************)
(* find_spelling_errors: sentence split                                    *)
(* re.split(r'(?<!\w\.\w.)(?<![A-Z][a-z]\.)(?<=\.|\?)\s', text)            *)
(***************************************************************************)
\* (?<=\.|\?) : the character before position p is '.' or '?'
AfterStop(s, p) == p > 1 /\ s[p - 1] \in {".", "?"}

\* (?<!\w\.\w.) fails the match when the four characters before p are
\* word, '.', word, any character but newline
Initials(s, p) ==
    /\ p > 4
    /\ IsWordChar(s[p - 4])
    /\ s[p - 3] = "."
    /\ IsWordChar(s[p - 2])
    /\ s[p - 1] # "\n"

\* (?<![A-Z][a-z]\.) fails the match when the three characters before p are
\* an upper-case letter, a lower-case letter and '.'
Title(s, p) ==
    /\ p > 3
    /\ s[p - 3] \in UpperSet
    /\ s[p - 2] \in LowerSet
    /\ s[p - 1] = "."

\* the positions of the one-character separators the pattern matches
SplitPoints(s) ==
    {p \in DOMAIN s :
        IsSpace(s[p]) /\ AfterStop(s, p) /\ ~Initials(s, p) /\ ~Title(s, p)}

RECURSIVE SplitFrom(_, _, _)
\* the pieces of s from position start on, cut at the separators in pts
SplitFrom(s, pts, start) ==
    LET later == {p \in pts : p >= start}
    IN  IF later = {} THEN <<Slice(s, start, Len(s))>>
        ELSE LET p == CHOOSE q \in later : \A r \in later : q <= r
             IN  <<Slice(s, start, p - 1)>> \o SplitFrom(s, pts, p + 1)

\* re.split: the sentences of text (empty pieces included)
Split(s) == SplitFrom(s, SplitPoints(s), 1)

(***************************************************************************)
(* find_spelling_errors: tokenisation                                      *)
(* re.findall(r"\b[a-zA-Z\']+\b", sentence)                                *)
(***************************************************************************)
\* \b between positions p and p+1 of s (p = 0: start, p = Len(s): end)
Boundary(s, p) ==
    LET left  == p >= 1 /\ IsWordChar(s[p])
        right == p < Len(s) /\ IsWordChar(s[p + 1])
    IN  left # right

\* the ends e of a match starting at p: s[p..e] all token characters, \b at e
MatchEnds(s, p) ==
    {e \in p..Len(s) :
        /\ \A i \in p..e : IsTokenChar(s[i])
        /\ Boundary(s, e)}

RECURSIVE FindAllFrom(_, _)
\* the matches from position p on, leftmost first, each the longest at its start
FindAllFrom(s, p) ==
    IF p > Len(s) THEN <<>>
    ELSE IF Boundary(s, p - 1) /\ MatchEnds(s, p) # {}
         THEN LET e == CHOOSE x \in MatchEnds(s, p) : \A y \in MatchEnds(s, p) : y <= x
              IN  <<Slice(s, p, e)>> \o FindAllFrom(s, e + 1)
         ELSE FindAllFrom(s, p + 1)

\* re.findall: the words of a sentence, in order
FindAll(s) == FindAllFrom(s, 1)

(***************************************************************************)
(* Vocabulary                                                              *)
(***************************************************************************)
\* spell.word_frequency: the words the loaded dictionary knows (an excerpt;
\* the word list itself is data outside the program)
WordFrequency ==
    { <<"t","h","e">>, <<"q","u","i","c","k">>, <<"f","o","x">>, <<"a">> }

\* str.isalpha (ASCII letters)
IsAlpha(w) == w # <<>> /\ \A i \in DOMAIN w : w[i] \in Letters

\* CUSTOM_IGNORE = {"auraa", "auraadesign", "luxury", "wallart", "faux"},
\* then filtered to its alphabetic members
CUSTOM_IGNORE ==
    LET listed == { <<"a","u","r","a","a">>,
                    <<"a","u","r","a","a","d","e","s","i","g","n">>,
                    <<"l","u","x","u","r","y">>,
                    <<"w","a","l","l","a","r","t">>,
                    <<"f","a","u","x">> }
    IN  {w \in listed : IsAlpha(w)}

\* Python's None where a string is expected (no string of characters equals it)
None == <<"None">>

\* SpellChecker._check_if_should_check(word): a lone punctuation mark and a
\* word that float() parses are never checked (the length cut-off against the
\* longest dictionary word is left out: no word of the model is that long)
ShouldCheck(word) ==
    /\ word # <<"'">>
    /\ Lower(word) \notin { <<"n","a","n">>, <<"i","n","f">>,
                            <<"i","n","f","i","n","i","t","y">> }

\* spell.unknown(words): the lower-cased words the dictionary does not know
\* (SpellChecker is case-insensitive by default: it lower-cases every word)
Unknown(words) ==
    {Lower(words[i]) : i \in {j \in DOMAIN words : ShouldCheck(words[j])}}
        \ WordFrequency

\* spell.correction(word): the most probable known word near word, if any
Correction(word) ==
    IF word = <<"t","e","h">> THEN <<"t","h","e">>
    ELSE IF word = <<"q","u","i","k">> THEN <<"q","u","i","c","k">>
    ELSE None

(***************************************************************************)
(* find_spelling_errors                                                    *)
(***************************************************************************)
\* Misspelled without the allow-list subtracted
MisspelledNoIgnore(sentence) == Unknown(FindAll(sentence))

\* the words of a sentence that are reported: spell.unknown(words) - CUSTOM_IGNORE
Misspelled(sentence) == Unknown(FindAll(sentence)) \ CUSTOM_IGNORE

\* the key under which a (word, sentence) pair is remembered in seen
SeenKey(word, sentence) == <<word, sentence>>

\* the tuple appended to errors
ErrorTuple(word, sentence) == <<word, Correction(word), Strip(sentence)>>

RECURSIVE WordLoop(_, _, _, _, _)
\* for word in misspelled: ... (order: the iteration order of the set, which
\* Python leaves unspecified); acc = [errors, seen]
WordLoop(order, k, misspelled, sentence, acc) ==
    IF k > Len(order) THEN acc
    ELSE LET word == order[k]
         IN  IF word \in misspelled /\ SeenKey(word, sentence) \notin acc.seen
             THEN WordLoop(order, k + 1, misspelled, sentence,
                           [errors |-> Append(acc.errors, ErrorTuple(word, sentence)),
                            seen   |-> acc.seen \cup {SeenKey(word, sentence)}])
             ELSE WordLoop(order, k + 1, misspelled, sentence, acc)

RECURSIVE SentenceLoop(_, _, _, _)
\* for sentence in sentences: ...
SentenceLoop(sentences, i, order, acc) ==
    IF i > Len(sentences) THEN acc
    ELSE SentenceLoop(sentences, i + 1, order,
                      WordLoop(order, 1, Misspelled(sentences[i]), sentences[i], acc))

\* find_spelling_errors(text), with the iteration order of the sets given
find_spelling_errors(t, order) ==
    SentenceLoop(Split(t), 1, order, [errors |-> <<>>, seen |-> {}]).errors

\* every word find_spelling_errors can iterate over for text t
MisspelledIn(t) ==
    LET sentences == Split(t)
    IN  UNION {Misspelled(sentences[i]) : i \in DOMAIN sentences}

RECURSIVE Orders(_)
\* the orders in which a set can be iterated
Orders(S) ==
    IF S = {} THEN {<<>>}
    ELSE UNION {{<<x>> \o o : o \in Orders(S \ {x})} : x \in S}

(***************************************************************************)
(* Specification of find_spelling_errors on bounded texts                  *)
(***************************************************************************)
\* the texts are built from at most MaxPieces of these pieces
MaxPieces == 5

Pieces ==
    { <<"t","e","h">>, <<"T","e","h">>, <<"T","h","e">>, <<"f","a","u","x">>,
      <<" ">>, <<".", " ">> }

RECURSIVE TextsOf(_)
TextsOf(n) ==
    IF n = 0 THEN {<<>>}
    ELSE LET shorter == TextsOf(n - 1)
         IN  shorter \cup {t \o p : t \in shorter, p \in Pieces}

Texts == TextsOf(MaxPieces)

NoWorld == <<>>
NoTasks == <<>>

InitAudit ==
    /\ pc = "call"
    /\ text \in Texts
    /\ errors = <<>>
    /\ world = NoWorld
    /\ urls = <<>>
    /\ phase = NoTasks /\ gets = NoTasks /\ sleeps = NoTasks
    /\ fetched = NoTasks /\ audited = NoTasks /\ result = NoTasks
    /\ yielded = {}
    /\ report = <<>> /\ skipped = <<>> /\ files = <<>>

\* one call of find_spelling_errors(text)
FindSpellingErrors ==
    /\ pc = "call"
    /\ \E order \in Orders(MisspelledIn(text)) :
          errors' = find_spelling_errors(text, order)
    /\ pc' = "return"
    /\ UNCHANGED <<world, urls, phase, gets, sleeps, fetched, audited, result,
                   yielded, report, skipped, files, text>>

SpecAudit == InitAudit /\ [][FindSpellingErrors]_vars

(***************************************************************************)
(* extract_urls_from_sitemap                                               *)
(*                                                                         *)
(* world maps a sitemap URL to what requests.get answers there:            *)
(*   [status |-> "error"]    the request raises (transport error, timeout) *)
(*   [status |-> "non200"]   status_code != 200                            *)
(*   [status |-> "badxml"]   ET.fromstring raises ParseError               *)
(*   [status |-> "ok", entries |-> <<...>>]  the children of the root      *)
(*       element in document order, each [tag, loc]; loc is the text of    *)
(*       the entry's <loc>, NoLoc when the entry has no <loc> element      *)
(***************************************************************************)
NoLoc == "NoLoc"

SITEMAP_URL == "https://auraadesign.co.uk/sitemap_index.xml"

Failure(st) == [status |-> st, entries |-> <<>>]
Document(entries) == [status |-> "ok", entries |-> entries]
SitemapEntry(loc) == [tag |-> "sitemap", loc |-> loc]
UrlEntry(loc) == [tag |-> "url", loc |-> loc]

\* requests.get(sitemap_url): a URL nothing is served at makes the request raise
Get(w, u) == IF u \in DOMAIN w THEN w[u] ELSE Failure("error")

\* Extend putting the new elements in front
ExtendFront(acc, more) == more \o acc

\* urls.extend(more)
Extend(acc, more) == acc \o more

\* the depth of nested calls at which the interpreter raises RecursionError
\* (sys.getrecursionlimit() frames in CPython, scaled down here)
RecursionLimit == 4

\* an interpreter that refuses the first nested call
TooDeepAtOnce(d) == d > 1

\* the call nested at depth d exhausts the stack: RecursionError is raised
\* under its requests.get, inside its try block
TooDeep(d) == d > RecursionLimit

Max(a, b) == IF a >= b THEN a ELSE b

\* except Exception as e: log; then return urls
\* r = [urls, raised, deepest]: the state in which the try block was left;
\* deepest is the depth of the deepest call made so far
HandleSitemapException(r) ==
    [urls |-> r.urls, raised |-> FALSE, deepest |-> r.deepest]

RECURSIVE SitemapLoop(_, _, _, _, _, _)
RECURSIVE UrlLoop(_, _, _)
RECURSIVE ExtractUrls(_, _, _)

\* for url in root.findall("ns:url"): loc = url.find("ns:loc");
\*     if loc is not None: urls.append(loc.text)
UrlLoop(entries, i, acc) ==
    IF i > Len(entries) THEN [urls |-> acc, raised |-> FALSE]
    ELSE IF entries[i].tag = "url" /\ entries[i].loc # NoLoc
         THEN UrlLoop(entries, i + 1, Append(acc, entries[i].loc))
         ELSE UrlLoop(entries, i + 1, acc)

\* for sitemap in root.findall("ns:sitemap"): loc = sitemap.find("ns:loc").text;
\*     urls.extend(extract_urls_from_sitemap(loc))
\* .text of a missing <loc> raises AttributeError, which leaves the try block;
\* the nested call is made whatever loc is: no URL is remembered as visited.
\* d is the depth of this call, deep the depth of the deepest call so far
SitemapLoop(w, entries, i, acc, d, deep) ==
    IF i > Len(entries)
    THEN LET r == UrlLoop(entries, 1, acc)
         IN  [urls |-> r.urls, raised |-> r.raised, deepest |-> deep]
    ELSE IF entries[i].tag # "sitemap"
         THEN SitemapLoop(w, entries, i + 1, acc, d, deep)
    ELSE IF entries[i].loc = NoLoc
         THEN [urls |-> acc, raised |-> TRUE, deepest |-> deep]
    ELSE LET sub == ExtractUrls(w, entries[i].loc, d + 1)
         IN  IF sub.raised
             THEN [urls |-> acc, raised |-> TRUE,
                   deepest |-> Max(deep, sub.deepest)]
             ELSE SitemapLoop(w, entries, i + 1, Extend(acc, sub.urls), d,
                              Max(deep, sub.deepest))

\* the try block of extract_urls_from_sitemap, in the call nested at depth d
TryResolve(w, u, d) ==
    IF TooDeep(d) THEN [urls |-> <<>>, raised |-> TRUE, deepest |-> d]
    ELSE
    LET resp == Get(w, u)
    IN  CASE resp.status = "error"  -> [urls |-> <<>>, raised |-> TRUE, deepest |-> d]
          [] resp.status = "non200" -> [urls |-> <<>>, raised |-> FALSE, deepest |-> d]
          [] resp.status = "badxml" -> [urls |-> <<>>, raised |-> FALSE, deepest |-> d]
          [] OTHER -> SitemapLoop(w, resp.entries, 1, <<>>, d, d)

\* extract_urls_from_sitemap(sitemap_url) called at depth d: [urls, raised,
\* deepest], raised telling whether an exception leaves the function
ExtractUrls(w, u, d) ==
    LET r == TryResolve(w, u, d)
    IN  IF r.raised THEN HandleSitemapException(r) ELSE r

extract_urls_from_sitemap(w, u) == ExtractUrls(w, u, 1)

(***************************************************************************)
(* Specification of extract_urls_from_sitemap on bounded sitemap trees     *)
(* (acyclic: the index lists A and B, A lists B, B lists pages only)       *)
(***************************************************************************)
\* a sitemap document has at most MaxEntries entries
MaxEntries == 2

RECURSIVE SeqsUpTo(_, _)
SeqsUpTo(S, n) ==
    IF n = 0 THEN {<<>>}
    ELSE LET shorter == SeqsUpTo(S, n - 1)
         IN  shorter \cup {Append(q, e) : q \in shorter, e \in S}

Responses(entrySet) ==
    {Failure("error"), Failure("non200"), Failure("badxml")}
        \cup {Document(es) : es \in SeqsUpTo(entrySet, MaxEntries)}

IndexEntries == {SitemapEntry("A"), SitemapEntry("B"), SitemapEntry(NoLoc), UrlEntry("r")}
AEntries == {SitemapEntry("B"), UrlEntry("a"), UrlEntry(NoLoc)}
BEntries == {UrlEntry("b1"), UrlEntry("b2"), UrlEntry(NoLoc)}

World(i, a, b) == (SITEMAP_URL :> i) @@ ("A" :> a) @@ ("B" :> b)

Worlds ==
    {World(i, a, b) : i \in Responses(IndexEntries),
                      a \in Responses(AEntries), b \in Responses(BEntries)}

InitSitemap ==
    /\ pc = "start"
    /\ world \in Worlds
    /\ urls = <<>>
    /\ phase = NoTasks /\ gets = NoTasks /\ sleeps = NoTasks
    /\ fetched = NoTasks /\ audited = NoTasks /\ result = NoTasks
    /\ yielded = {}
    /\ report = <<>> /\ skipped = <<>> /\ files = <<>>
    /\ text = <<>> /\ errors = <<>>

\* urls = extract_urls_from_sitemap(SITEMAP_URL); an exception leaving the
\* call would end the program with a traceback
ResolveSitemap ==
    /\ pc = "start"
    /\ LET r == extract_urls_from_sitemap(world, SITEMAP_URL)
       IN  /\ urls' = r.urls
           /\ pc' = IF r.raised THEN "crashed" ELSE "resolved"
    /\ UNCHANGED <<world, phase, gets, sleeps, fetched, audited, result,
                   yielded, report, skipped, files, text, errors>>

SpecSitemap == InitSitemap /\ [][ResolveSitemap]_vars

(***************************************************************************)
(* run_spellcheck_audit: the worker pool, the tasks and the collection     *)
(***************************************************************************)
MAX_WORKERS == 10
RETRY_LIMIT == 3

\* no text fetched yet (no string of characters equals it)
NoText == <<"NoText">>
NoResult == [kind |-> "none", rows |-> <<>>]
Returned(rows) == [kind |-> "ok", rows |-> rows]
Raised == [kind |-> "raised", rows |-> <<>>]

\* the texts a page can give once its markup is stripped and normalised:
\* an empty page, and two pages with misspellings
PageTexts ==
    { <<>>,
      <<"T","e","h"," ","f","o","x",".", " ", "t","e","h"," ","f","a","u","x",".">>,
      <<"t","e","h"," ","q","u","i","k">> }

\* the orders in which the misspelled words of those pages can be iterated
PageWordOrders == Orders(UNION {MisspelledIn(t) : t \in PageTexts})

\* find_spelling_errors(t) for every page text t and iteration order, tabulated
PageErrors ==
    [t \in PageTexts |-> [order \in PageWordOrders |-> find_spelling_errors(t, order)]]

Tasks == DOMAIN urls

\* MoreAttempts with a loop one attempt short
MoreAttemptsShort(g) == g < RETRY_LIMIT - 1

\* for attempt in range(RETRY_LIMIT): another attempt follows g attempts
MoreAttempts(g) == g < RETRY_LIMIT

\* NoUrls with the test for an empty list missing
NoUrlsUnchecked(u) == FALSE

\* if not urls: ... return
NoUrls(u) == u = <<>>

\* process_url: the rows built from the tuples of find_spelling_errors
Rows(url, errs) ==
    [k \in DOMAIN errs |->
        [URL |-> url, Word |-> errs[k][1], Correction |-> errs[k][2], Context |-> errs[k][3]]]

\* Collected without the except clauses: the task's exception leaves the loop
CollectedUncaught(res, url, rep, skp) ==
    IF res.kind = "ok"
    THEN [report |-> rep \o res.rows, skipped |-> skp, crashed |-> FALSE]
    ELSE [report |-> rep, skipped |-> skp, crashed |-> TRUE]

\* Collected leaving out the rows the report already holds
CollectedMerging(res, url, rep, skp) ==
    IF res.kind = "ok"
    THEN [report |-> rep \o SelectSeq(res.rows,
                                      LAMBDA r : \A k \in DOMAIN rep : rep[k] # r),
          skipped |-> skp, crashed |-> FALSE]
    ELSE [report |-> rep, skipped |-> Append(skp, url), crashed |-> FALSE]

\* the body of the loop when a collected future's URL is recorded as skipped too
CollectedBoth(res, url, rep, skp) ==
    IF res.kind = "ok"
    THEN [report |-> Extend(rep, res.rows),
          skipped |-> Append(skp, url), crashed |-> FALSE]
    ELSE [report |-> rep, skipped |-> Append(skp, url), crashed |-> FALSE]

\* the body of the as_completed loop for one future: result = future.result();
\* report.extend(result), or, when the task raised, skipped.append(url).
\* crashed tells whether an exception leaves the loop
Collected(res, url, rep, skp) ==
    IF res.kind = "ok"
    THEN [report |-> Extend(rep, res.rows), skipped |-> skp, crashed |-> FALSE]
    ELSE [report |-> rep, skipped |-> Append(skp, url), crashed |-> FALSE]

\* the sitemap trees of the runs: no URL at all; two sub-sitemaps of one page
\* each; one page listed twice
RunWorlds ==
    { World(Failure("non200"), Failure("error"), Failure("error")),
      World(Document(<<SitemapEntry("A"), SitemapEntry("B")>>),
            Document(<<UrlEntry("a")>>), Document(<<UrlEntry("b1")>>)),
      World(Document(<<UrlEntry("r"), UrlEntry("r")>>),
            Failure("badxml"), Failure("badxml")) }

Init ==
    /\ pc = "start"
    /\ world \in RunWorlds
    /\ urls = <<>>
    /\ phase = NoTasks /\ gets = NoTasks /\ sleeps = NoTasks
    /\ fetched = NoTasks /\ audited = NoTasks /\ result = NoTasks
    /\ yielded = {}
    /\ report = <<>> /\ skipped = <<>> /\ files = <<>>
    /\ text = <<>> /\ errors = <<>>

\* if not urls: log, print, return
AbortEmpty ==
    /\ pc = "resolved"
    /\ NoUrls(urls)
    /\ pc' = "aborted"
    /\ UNCHANGED <<world, urls, phase, gets, sleeps, fetched, audited, result,
                   yielded, report, skipped, files, text, errors>>

\* report = []; skipped = []; one executor.submit(process_url, url) per url
Submit ==
    /\ pc = "resolved"
    /\ ~NoUrls(urls)
    /\ phase' = [i \in Tasks |-> "queued"]
    /\ gets' = [i \in Tasks |-> 0]
    /\ sleeps' = [i \in Tasks |-> 0]
    /\ fetched' = [i \in Tasks |-> NoText]
    /\ audited' = [i \in Tasks |-> FALSE]
    /\ result' = [i \in Tasks |-> NoResult]
    /\ report' = <<>> /\ skipped' = <<>>
    /\ pc' = "collect"
    /\ UNCHANGED <<world, urls, yielded, files, text, errors>>

Running == {i \in Tasks : phase[i] \in {"fetching", "auditing"}}

\* a pool that gives every submitted task a thread of its own
WorkerFreeAlways(n) == TRUE

\* ThreadPoolExecutor(max_workers=MAX_WORKERS): with n tasks executing, the
\* pool has an idle thread or may still create one
WorkerFree(n) == n < MAX_WORKERS

\* a free worker of the pool takes the oldest queued task
Start(i) ==
    /\ pc = "collect"
    /\ phase[i] = "queued"
    /\ \A j \in Tasks : j < i => phase[j] # "queued"
    /\ WorkerFree(Cardinality(Running))
    /\ phase' = [phase EXCEPT ![i] = "fetching"]
    /\ UNCHANGED <<pc, world, urls, gets, sleeps, fetched, audited, result,
                   yielded, report, skipped, files, text, errors>>

\* extract_text_from_url gave up (return "") and process_url returns []
GiveUp(i, g) ==
    IF MoreAttempts(g)
    THEN /\ phase' = phase
         /\ result' = result
    ELSE /\ phase' = [phase EXCEPT ![i] = "finished"]
         /\ result' = [result EXCEPT ![i] = Returned(<<>>)]

\* one attempt of extract_text_from_url that raises inside the try block
\* (requests.get: transport error or timeout; BeautifulSoup: the markup of a
\* 200 answer cannot be parsed): log, time.sleep(1), next attempt
AttemptRaises(i) ==
    /\ pc = "collect"
    /\ phase[i] = "fetching"
    /\ MoreAttempts(gets[i])
    /\ gets' = [gets EXCEPT ![i] = @ + 1]
    /\ sleeps' = [sleeps EXCEPT ![i] = @ + 1]
    /\ GiveUp(i, gets[i] + 1)
    /\ UNCHANGED <<pc, world, urls, fetched, audited, yielded, report, skipped,
                   files, text, errors>>

\* one attempt answered with a status other than 200: log, continue
AttemptNon200(i) ==
    /\ pc = "collect"
    /\ phase[i] = "fetching"
    /\ MoreAttempts(gets[i])
    /\ gets' = [gets EXCEPT ![i] = @ + 1]
    /\ GiveUp(i, gets[i] + 1)
    /\ UNCHANGED <<pc, world, urls, sleeps, fetched, audited, yielded, report,
                   skipped, files, text, errors>>

\* the retry loop going on after an attempt returned a text
AfterFetchContinue(t) == "fetching"

\* process_url with the empty-text test left out: every text is audited
AfterFetchUnchecked(t) == "auditing"

\* process_url after extract_text_from_url returned the text t:
\* if not text: return [], else the text is audited by the same task
AfterFetch(t) == IF t = <<>> THEN "finished" ELSE "auditing"

\* one attempt answered 200: the stripped text t is returned to process_url,
\* which returns [] at once when the text is empty
AttemptOk(i, t) ==
    /\ pc = "collect"
    /\ phase[i] = "fetching"
    /\ MoreAttempts(gets[i])
    /\ gets' = [gets EXCEPT ![i] = @ + 1]
    /\ fetched' = [fetched EXCEPT ![i] = t]
    /\ phase' = [phase EXCEPT ![i] = AfterFetch(t)]
    /\ result' = IF AfterFetch(t) = "finished"
                 THEN [result EXCEPT ![i] = Returned(<<>>)]
                 ELSE result
    /\ UNCHANGED <<pc, world, urls, sleeps, audited, yielded, report, skipped,
                   files, text, errors>>

\* process_url: errors = find_spelling_errors(text), then the rows; order is
\* the order in which the sets of misspelled words happen to be iterated
Audit(i, order) ==
    /\ pc = "collect"
    /\ phase[i] = "auditing"
    /\ audited' = [audited EXCEPT ![i] = TRUE]
    /\ phase' = [phase EXCEPT ![i] = "finished"]
    /\ result' = [result EXCEPT
                     ![i] = Returned(Rows(urls[i], PageErrors[fetched[i]][order]))]
    /\ UNCHANGED <<pc, world, urls, gets, sleeps, fetched, yielded, report,
                   skipped, files, text, errors>>

\* process_url: find_spelling_errors raises, and so does the task
AuditRaises(i) ==
    /\ pc = "collect"
    /\ phase[i] = "auditing"
    /\ audited' = [audited EXCEPT ![i] = TRUE]
    /\ phase' = [phase EXCEPT ![i] = "finished"]
    /\ result' = [result EXCEPT ![i] = Raised]
    /\ UNCHANGED <<pc, world, urls, gets, sleeps, fetched, yielded, report,
                   skipped, files, text, errors>>

\* as_completed yields a finished future, in any order of completion
Collect(i) ==
    /\ pc = "collect"
    /\ phase[i] = "finished"
    /\ i \notin yielded
    /\ yielded' = yielded \cup {i}
    /\ LET c == Collected(result[i], urls[i], report, skipped)
       IN  /\ report' = c.report
           /\ skipped' = c.skipped
           /\ pc' = IF c.crashed THEN "crashed" ELSE pc
    /\ UNCHANGED <<world, urls, phase, gets, sleeps, fetched, audited, result,
                   files, text, errors>>

\* the loop left as soon as one future was yielded
SomeYielded(y, ts) == y # {}

\* as_completed(futures) is exhausted: every future was yielded
AllYielded(y, ts) == y = ts

\* every future was yielded: the with block is left
LeavePool ==
    /\ pc = "collect"
    /\ AllYielded(yielded, Tasks)
    /\ pc' = "write_report"
    /\ UNCHANGED <<world, urls, phase, gets, sleeps, fetched, audited, result,
                   yielded, report, skipped, files, text, errors>>

\* pd.DataFrame(report).to_csv(report_filename)
WriteReport ==
    /\ pc = "write_report"
    /\ files' = Append(files, [name |-> "report", rows |-> report])
    /\ pc' = "write_skipped"
    /\ UNCHANGED <<world, urls, phase, gets, sleeps, fetched, audited, result,
                   yielded, report, skipped, text, errors>>

\* pd.DataFrame(skipped, columns=["Skipped URLs"]).to_csv(skipped_filename)
WriteSkipped ==
    /\ pc = "write_skipped"
    /\ files' = Append(files, [name |-> "skipped", rows |-> skipped])
    /\ pc' = "done"
    /\ UNCHANGED <<world, urls, phase, gets, sleeps, fetched, audited, result,
                   yielded, report, skipped, text, errors>>

Next ==
    \/ ResolveSitemap
    \/ AbortEmpty
    \/ Submit
    \/ \E i \in Tasks : Start(i)
    \/ \E i \in Tasks : AttemptRaises(i)
    \/ \E i \in Tasks : AttemptNon200(i)
    \/ \E i \in Tasks, t \in PageTexts : AttemptOk(i, t)
    \/ \E i \in Tasks, order \in PageWordOrders : Audit(i, order)
    \/ \E i \in Tasks : AuditRaises(i)
    \/ \E i \in Tasks : Collect(i)
    \/ LeavePool
    \/ WriteReport
    \/ WriteSkipped

Spec == Init /\ [][Next]_vars

\* the main thread and the pool's workers keep running: a step that stays
\* possible is taken
FairSpec == Spec /\ WF_vars(Next)

(***************************************************************************)
(* Specification of extract_urls_from_sitemap on sitemaps with cycles: the *)
(* index may list itself, and A may list the index                         *)
(***************************************************************************)
CycleIndexEntries == IndexEntries \cup {SitemapEntry(SITEMAP_URL)}

CycleWorlds ==
    {World(i, a, Document(<<UrlEntry("b1")>>)) :
        i \in Responses(CycleIndexEntries),
        a \in {Failure("non200"), Document(<<UrlEntry("a")>>),
               Document(<<SitemapEntry(SITEMAP_URL), UrlEntry("a")>>)}}

InitCycle ==
    /\ pc = "start"
    /\ world \in CycleWorlds
    /\ urls = <<>>
    /\ phase = NoTasks /\ gets = NoTasks /\ sleeps = NoTasks
    /\ fetched = NoTasks /\ audited = NoTasks /\ result = NoTasks
    /\ yielded = {}
    /\ report = <<>> /\ skipped = <<>> /\ files = <<>>
    /\ text = <<>> /\ errors = <<>>

SpecCycle == InitCycle /\ [][ResolveSitemap]_vars

\* the longest sitemap of the runs that fill the pool
MaxPoolUrls == 11

\* sitemaps listing one page up to MaxPoolUrls times: more tasks than workers
PoolWorlds ==
    { World(Document([k \in 1..n |-> UrlEntry("p")]),
            Failure("error"), Failure("error")) : n \in 1..MaxPoolUrls }

InitPool ==
    /\ pc = "start"
    /\ world \in PoolWorlds
    /\ urls = <<>>
    /\ phase = NoTasks /\ gets = NoTasks /\ sleeps = NoTasks
    /\ fetched = NoTasks /\ audited = NoTasks /\ result = NoTasks
    /\ yielded = {}
    /\ report = <<>> /\ skipped = <<>> /\ files = <<>>
    /\ text = <<>> /\ errors = <<>>

\* the pool at work on pages that are answered at once with an empty text, up
\* to the moment every task is finished; the main thread, blocked in
\* as_completed meanwhile, does not act on the pool
NextPool ==
    \/ ResolveSitemap
    \/ Submit
    \/ \E i \in Tasks : Start(i)
    \/ \E i \in Tasks : AttemptOk(i, <<>>)

\* every worker thread keeps running: a task that can be started or that can
\* finish does so
SpecPool == InitPool /\ [][NextPool]_vars /\ WF_vars(NextPool)

\* KeyboardInterrupt is raised in the main thread somewhere in
\* run_spellcheck_audit: no except Exception clause catches it, the with block
\* is left once the workers are idle, and the handler of __main__ logs and
\* prints; what was written before stays on disk
Interrupt ==
    /\ pc \in {"start", "resolved", "collect", "write_report", "write_skipped"}
    /\ pc' = "interrupted"
    /\ UNCHANGED <<world, urls, phase, gets, sleeps, fetched, audited, result,
                   yielded, report, skipped, files, text, errors>>

NextInterrupt == Next \/ Interrupt

\* the runs that the user may interrupt
SpecInterrupt == Init /\ [][NextInterrupt]_vars

(***************************************************************************)
(* Properties                                                              *)
(***************************************************************************)
Elems(q) == {q[i] : i \in DOMAIN q}

\* how many times x occurs in the sequence q
Count(x, q) == Cardinality({i \in DOMAIN q : q[i] = x})

\* the tasks whose every fetch attempt failed, once the task is over
FetchFailed(i) == phase[i] = "finished" /\ fetched[i] = NoText

\* the tasks that failed: no text fetched, or an exception raised by the audit
TaskFailed(i) == FetchFailed(i) \/ result[i].kind = "raised"

\* C1: once the run completes, a URL whose fetch failed on every attempt
\* appears in the skipped sequence written to the skipped-URLs output.
C1_RetryExhaustionSkipped ==
    pc = "done" =>
        \A i \in Tasks : FetchFailed(i) => urls[i] \in Elems(files[2].rows)

\* C2: a URL whose fetch always fails gets exactly RETRY_LIMIT GET attempts,
\* then empty content; find_spelling_errors is never called for it and it
\* contributes no findings. No task ever makes more than RETRY_LIMIT attempts.
C2_ExactlyRetryLimitAttempts ==
    \A i \in DOMAIN phase :
        /\ gets[i] <= RETRY_LIMIT
        /\ (phase[i] = "fetching" /\ gets[i] < RETRY_LIMIT) => ENABLED AttemptNon200(i)
        /\ FetchFailed(i) =>
              /\ gets[i] = RETRY_LIMIT
              /\ ~audited[i]
              /\ result[i] = Returned(<<>>)

C2_Witness ==
    /\ pc = "done"
    /\ \E i \in Tasks : FetchFailed(i) /\ gets[i] = RETRY_LIMIT /\ sleeps[i] = 1

\* C3: whatever subset of the dispatched tasks fails (fetch failure, markup
\* parse failure, exception raised by the audit), the run reaches completion;
\* each failure is recorded as a skip entry or as an empty finding list, and
\* the findings of every other URL are in the report.
C3_FailureIsolation ==
    /\ (pc = "collect") ~> (pc = "done")
    /\ [](pc = "done" =>
            \A i \in Tasks :
                /\ FetchFailed(i) => result[i] = Returned(<<>>)
                /\ result[i].kind = "raised" => urls[i] \in Elems(skipped)
                /\ ~TaskFailed(i) => Elems(result[i].rows) \subseteq Elems(report))

C3_Witness ==
    /\ pc = "done"
    /\ \E i, j \in Tasks :
          /\ result[i].kind = "raised"
          /\ urls[i] \in Elems(skipped)
          /\ ~TaskFailed(j)
          /\ result[j].rows # <<>>
          /\ Elems(result[j].rows) \subseteq Elems(report)

\* C4: when the sitemap resolution yields no URL the run aborts with no task
\* dispatched and no file written; nothing else keeps the reports from being
\* produced: a run whose resolution yields URLs writes both files.
C4_FatalEmpty ==
    /\ [](  (pc # "start" /\ urls = <<>>) =>
              /\ pc \in {"resolved", "aborted"}
              /\ phase = NoTasks
              /\ files = <<>>)
    /\ [](pc = "aborted" => urls = <<>>)
    /\ (pc = "resolved" /\ urls # <<>>) ~> (pc = "done" /\ Len(files) = 2)

C4_Witness == pc = "aborted" /\ urls = <<>> /\ files = <<>> /\ phase = NoTasks

\* C8: after the run, every finding returned by process_url for a dispatched
\* URL is in the written report exactly as many times as it was returned, and
\* the report holds nothing else, in whatever order the tasks completed.
C8_AggregationLossless ==
    pc = "done" =>
        LET returned == UNION {Elems(result[i].rows) : i \in Tasks}
            written == files[1].rows
        IN  /\ Elems(written) = returned
            /\ \A r \in returned :
                  Count(r, written) =
                      Cardinality({<<i, k>> \in Tasks \X (1..Len(written)) :
                                      k \in DOMAIN result[i].rows /\ result[i].rows[k] = r})

\* both tasks return findings and the second one submitted is collected first
C8_Witness ==
    /\ pc = "done"
    /\ Len(urls) = 2
    /\ result[1].rows # <<>> /\ result[2].rows # <<>>
    /\ files[1].rows = result[2].rows \o result[1].rows
    /\ result[1].rows # result[2].rows

(***************************************************************************)
(* Properties of find_spelling_errors (specification SpecAudit)            *)
(***************************************************************************)
\* the tokens of all the sentences of a text
TokensOf(t) ==
    LET sentences == Split(t)
    IN  UNION {Elems(FindAll(sentences[i])) : i \in DOMAIN sentences}

\* C5: the list returned by find_spelling_errors never holds two findings with
\* the same (lower-cased word, reported sentence) pair.
C5_Dedup ==
    pc = "return" =>
        \A i, j \in DOMAIN errors :
            i # j => <<Lower(errors[i][1]), errors[i][3]>>
                        # <<Lower(errors[j][1]), errors[j][3]>>

\* C6: the word of every finding is a token of the finding's sentence, cased
\* as it is in that sentence.
C6_CasePreservation ==
    pc = "return" =>
        \A k \in DOMAIN errors :
            \E i \in DOMAIN Split(text) :
                /\ Strip(Split(text)[i]) = errors[k][3]
                /\ errors[k][1] \in Elems(FindAll(Split(text)[i]))

\* C7: no finding is produced for a token whose lower-cased form is in the
\* vocabulary (the word list or CUSTOM_IGNORE), whatever its casing and its
\* sentence.
C7_VocabularyMembership ==
    pc = "return" =>
        \A w \in TokensOf(text) :
            Lower(w) \in WordFrequency \cup CUSTOM_IGNORE =>
                \A k \in DOMAIN errors : Lower(errors[k][1]) # Lower(w)

\* a text with a capitalised dictionary word, an allow-listed word and a finding
C7_Witness ==
    /\ pc = "return"
    /\ <<"T","h","e">> \in TokensOf(text)
    /\ <<"f","a","u","x">> \in TokensOf(text)
    /\ errors # <<>>

(***************************************************************************)
(* Properties of extract_urls_from_sitemap (specification SpecSitemap)     *)
(***************************************************************************)
NoDuplicates(q) == \A i, j \in DOMAIN q : q[i] = q[j] => i = j

\* the URLs an entry of a document gives: those of the sub-sitemap it names,
\* or the page it names
Emitted(w, e) ==
    IF e.loc = NoLoc THEN {}
    ELSE IF e.tag = "sitemap" THEN Elems(extract_urls_from_sitemap(w, e.loc).urls)
    ELSE {e.loc}

\* in the sequence q every element of X comes before every element of Y
Precede(q, X, Y) == \A i, j \in DOMAIN q : (q[i] \in X /\ q[j] \in Y) => i < j

\* C9: the URLs are returned in the document order of the entries they come
\* from: what an earlier entry of the index gives precedes what a later entry
\* gives, whatever the kinds of the two entries.
C9_DocumentOrder ==
    (pc = "resolved" /\ NoDuplicates(urls)) =>
        LET es == Get(world, SITEMAP_URL).entries
        IN  \A j, k \in DOMAIN es :
                (j < k /\ Emitted(world, es[j]) \cap Emitted(world, es[k]) = {}) =>
                    Precede(urls, Emitted(world, es[j]), Emitted(world, es[k]))

\* C9 as amended: document order holds among the <sitemap> entries and among
\* the <url> entries; what the <sitemap> entries of a document give precedes
\* all of its own <url> entries, wherever they stand in the document.
C9_SitemapsThenUrlsOrder ==
    (pc = "resolved" /\ NoDuplicates(urls)) =>
        LET es == Get(world, SITEMAP_URL).entries
        IN  \A j, k \in DOMAIN es :
                (Emitted(world, es[j]) \cap Emitted(world, es[k]) = {}) =>
                    /\ (j < k /\ es[j].tag = es[k].tag) =>
                          Precede(urls, Emitted(world, es[j]), Emitted(world, es[k]))
                    /\ (es[j].tag = "sitemap" /\ es[k].tag = "url") =>
                          Precede(urls, Emitted(world, es[j]), Emitted(world, es[k]))

\* the index lists A then B, both give pages, and all of them are returned
C9_Witness ==
    /\ pc = "resolved"
    /\ NoDuplicates(urls)
    /\ Get(world, SITEMAP_URL).entries = <<SitemapEntry("A"), SitemapEntry("B")>>
    /\ Emitted(world, SitemapEntry("A")) # {}
    /\ Emitted(world, SitemapEntry("B")) # {}
    /\ Emitted(world, SitemapEntry("A")) \cap Emitted(world, SitemapEntry("B")) = {}
    /\ Elems(urls) = Emitted(world, SitemapEntry("A")) \cup Emitted(world, SitemapEntry("B"))

\* a <sitemap> entry of the index that is malformed or unfetchable
BadSubSitemap(w, e) ==
    /\ e.tag = "sitemap"
    /\ \/ e.loc = NoLoc
       \/ Get(w, e.loc).status # "ok"

\* C10: a malformed or unfetchable sub-sitemap (non-200, XML parse error,
\* transport error, entry without <loc>) gives no URL, no exception reaches the
\* caller, and the URLs of every sub-sitemap listed after it are returned.
C10_SitemapFailureIsolation ==
    pc \in {"resolved", "crashed"} =>
        /\ pc # "crashed"
        /\ LET es == Get(world, SITEMAP_URL).entries
           IN  \A j, k \in DOMAIN es :
                   (/\ j < k
                    /\ BadSubSitemap(world, es[j])
                    /\ es[k].tag = "sitemap") =>
                        /\ Emitted(world, es[j]) = {}
                        /\ Emitted(world, es[k]) \subseteq Elems(urls)

(***************************************************************************)
(* Properties of the tasks and of the run (continued)                      *)
(***************************************************************************)
\* C11: a fetched page whose normalised text is shorter than 100 characters
\* gives no findings, also when the text is not empty and holds unknown words.
C11_MinimumLengthShortCircuit ==
    \A i \in DOMAIN phase :
        (phase[i] = "finished" /\ fetched[i] # NoText /\ Len(fetched[i]) < 100) =>
            result[i].rows = <<>>

\* C15: between any two consecutive attempts on one URL there is a pause,
\* whether the earlier attempt failed with a status other than 200 or with a
\* transport error: a task that made n attempts has paused at least n - 1 times.
C15_BackoffBetweenAttempts ==
    \A i \in DOMAIN phase : sleeps[i] >= gets[i] - 1

\* C16 as claimed: the fetch phase is over before the audit phase begins: no
\* URL's text is being audited while another URL's fetch is pending or in
\* flight.
C16_PhaseOrdering ==
    ~ \E i, j \in DOMAIN phase :
          /\ phase[i] = "auditing"
          /\ phase[j] \in {"queued", "fetching"}

\* C16: the order holds per URL only: a URL's text is audited after that URL's
\* own fetch returned a text that is not empty; across URLs the two steps are
\* pipelined by the tasks.
C16_FetchBeforeOwnAudit ==
    \A i \in DOMAIN phase :
        (phase[i] = "auditing" \/ audited[i]) =>
            /\ gets[i] >= 1
            /\ fetched[i] # NoText
            /\ fetched[i] # <<>>

\* one URL is being audited while the other one's fetch has not started
C16_Witness ==
    \E i, j \in DOMAIN phase :
        /\ phase[i] = "auditing" /\ fetched[i] # NoText
        /\ phase[j] = "queued" /\ fetched[j] = NoText

\* the number of findings returned by the tasks of S that did not raise
RECURSIVE ReturnedRows(_)
ReturnedRows(S) ==
    IF S = {} THEN 0
    ELSE LET i == CHOOSE x \in S : TRUE
         IN  (IF result[i].kind = "ok" THEN Len(result[i].rows) ELSE 0)
                 + ReturnedRows(S \ {i})

\* C17: every dispatched URL gets exactly one outcome. While the futures are
\* collected and after the loop, the skipped sequence holds each URL once per
\* yielded task on it that raised and nothing else, the report holds the
\* finding lists of the other yielded tasks and nothing else, and when the
\* loop is left every task has been yielded.
C17_ExactlyOneOutcome ==
    pc \in {"collect", "write_report", "write_skipped", "done"} =>
        /\ yielded \subseteq Tasks
        /\ pc # "collect" => yielded = Tasks
        /\ \A u \in Elems(urls) \cup Elems(skipped) :
              Count(u, skipped) =
                  Cardinality({i \in yielded :
                                  urls[i] = u /\ result[i].kind = "raised"})
        /\ Len(report) = ReturnedRows(yielded)

\* the loop is over; of two tasks on the same URL one raised and was skipped,
\* the other one was collected with its findings
C17_Witness ==
    /\ pc = "write_report"
    /\ \E i, j \in Tasks :
          /\ urls[i] = urls[j]
          /\ result[i].kind = "raised"
          /\ result[j].kind = "ok" /\ result[j].rows # <<>>
          /\ skipped = <<urls[i]>>
          /\ report = result[j].rows

\* C18: the report is written once, at the end. A file exists only when every
\* task is finished and was collected; the findings file is written first and
\* holds the report, the skipped file second and holds the skipped sequence;
\* once a file is written the report and the skipped sequence in memory do not
\* change any more.
C18_WriteOnceAtEnd ==
    /\ [](files # <<>> =>
            /\ \A i \in Tasks : phase[i] = "finished"
            /\ yielded = Tasks
            /\ Len(files) <= 2
            /\ files[1] = [name |-> "report", rows |-> report]
            /\ Len(files) = 2 => files[2] = [name |-> "skipped", rows |-> skipped])
    /\ [][files # <<>> => (report' = report /\ skipped' = skipped)]_vars
    /\ [][files' # files => pc \in {"write_report", "write_skipped"}]_vars

\* both files are written, with findings and with a skipped URL
C18_Witness ==
    /\ pc = "done"
    /\ Len(files) = 2
    /\ files[1].rows # <<>> /\ files[1].rows = report
    /\ files[2].rows # <<>> /\ files[2].rows = skipped

\* C19: the retry loop is bounded and stops at the first success. No task makes
\* more than RETRY_LIMIT attempts; the attempt that returns a text (status 200
\* and the text extracted) is counted as attempt k = gets, the text goes to
\* process_url, and afterwards the task makes no further attempt and its text
\* does not change. An attempt answered 200 whose markup cannot be parsed
\* raises and counts as a failed attempt.
C19_StopsAtFirstSuccess ==
    /\ [](\A i \in DOMAIN phase :
            /\ gets[i] <= RETRY_LIMIT
            /\ fetched[i] # NoText => (gets[i] >= 1 /\ phase[i] # "fetching"))
    /\ [][\A i \in DOMAIN phase \cap DOMAIN phase' :
            /\ fetched[i] # NoText =>
                  (gets'[i] = gets[i] /\ fetched'[i] = fetched[i])
            /\ (fetched[i] = NoText /\ fetched'[i] # NoText) =>
                  /\ gets'[i] = gets[i] + 1
                  /\ phase'[i] \in {"auditing", "finished"}]_vars

\* a task whose first attempt failed and whose second attempt returned a text,
\* which was audited
C19_Witness ==
    \E i \in DOMAIN phase :
        /\ gets[i] = 2
        /\ fetched[i] # NoText /\ fetched[i] # <<>>
        /\ phase[i] = "finished" /\ audited[i]
        /\ result[i].kind = "ok" /\ result[i].rows # <<>>

\* C12: a run interrupted by KeyboardInterrupt before run_spellcheck_audit
\* returns leaves no output file: neither the findings file nor the skipped
\* file, and never one without the other.
C12_InterruptedNoOutput ==
    pc = "interrupted" => files = <<>>

\* C13: the pool is bounded. There is one task per listed URL; never more than
\* MAX_WORKERS tasks execute at the same time, however many URLs there are;
\* the other tasks wait in the queue and each of them is eventually started.
C13_BoundedPool ==
    /\ [](pc = "collect" =>
            /\ DOMAIN phase = DOMAIN urls
            /\ Cardinality(Running) <= MAX_WORKERS
            /\ \A i \in Tasks :
                  phase[i] \in {"queued", "fetching", "auditing", "finished"})
    /\ (pc = "collect") ~> (pc = "collect" /\ \A i \in Tasks : phase[i] # "queued")

\* every worker is busy and a task waits in the queue
C13_Witness ==
    /\ pc = "collect"
    /\ Len(urls) > MAX_WORKERS
    /\ Cardinality(Running) = MAX_WORKERS
    /\ \E i \in Tasks : phase[i] = "queued"

(***************************************************************************)
(* Properties of extract_urls_from_sitemap on cycles (specification        *)
(* SpecCycle)                                                              *)
(***************************************************************************)
\* the loop over the <sitemap> entries of doc comes to an entry naming loc
Reached(doc, loc) ==
    \E i \in DOMAIN doc.entries :
        /\ doc.entries[i] = SitemapEntry(loc)
        /\ \A j \in 1..(i - 1) : doc.entries[j] # SitemapEntry(NoLoc)

\* the traversal comes back to the index: the index lists itself, or lists A
\* which lists the index
CycleReached(w) ==
    \/ Reached(Get(w, SITEMAP_URL), SITEMAP_URL)
    \/ /\ Reached(Get(w, SITEMAP_URL), "A")
       /\ Reached(Get(w, "A"), SITEMAP_URL)

\* C14 as claimed: there is no cycle guard, and a traversal that comes back
\* to the sitemap index recurses without ever returning a result.
C14_CycleNeverReturns ==
    CycleReached(world) => pc # "resolved"

\* C14: the resolution terminates on every finite acyclic tree, with calls
\* nested no deeper than there are documents. There is no cycle guard: a
\* traversal that comes back to the index nests a call for every listing, down
\* to the recursion limit; the RecursionError raised there is caught by the
\* except clause and the traversal returns. An index that lists itself and
\* one page returns the page once per level.
C14_CycleEndsAtRecursionLimit ==
    pc # "start" =>
        LET r == extract_urls_from_sitemap(world, SITEMAP_URL)
        IN  /\ pc = "resolved"
            /\ urls = r.urls
            /\ ~CycleReached(world) => r.deepest <= Cardinality(DOMAIN world)
            /\ CycleReached(world) => r.deepest = RecursionLimit + 1
            /\ Get(world, SITEMAP_URL)
                   = Document(<<SitemapEntry(SITEMAP_URL), UrlEntry("r")>>) =>
                  urls = [k \in 1..RecursionLimit |-> "r"]

\* the index lists itself and one page: the traversal has returned, with the
\* page once per level of the recursion
C14_Witness ==
    /\ pc = "resolved"
    /\ Get(world, SITEMAP_URL) = Document(<<SitemapEntry(SITEMAP_URL), UrlEntry("r")>>)
    /\ CycleReached(world)
    /\ Len(urls) = RecursionLimit

====
